---- MODULE Spec2Model ----
(***************************************************************************)
(* Model of data-exploration.py: the streaming TMX subset loader           *)
(* (load_tmx_subset_robust with _get_seg_text) and the five analyses that  *)
(* run_exploration applies to the loaded pair list.                        *)
(*                                                                         *)
(* A text is a sequence of one-character strings.  An optional value is a  *)
(* sequence of length 0 (Python None / absent) or 1 (the value).           *)
(***************************************************************************)
EXTENDS Integers, Sequences, FiniteSets, TLC

\* ------------------------------------------------------------------ bounds
MaxTu == 2        \* top-level items in a document of the loader specification
MaxTuv == 4       \* tuv variants in a document of the loader specification
MaxCap == 2       \* largest max_tu tried
MaxTextLen == 2   \* longest seg.text / child tail of the extraction specification
MaxInline == 1    \* most inline children of a seg of the extraction specification
MaxWords == 3     \* most words of a text of the statistics specification
MaxPairs == 2     \* longest pair list of the statistics specification
MaxBuckets == 3   \* largest num_buckets of the statistics specification

\* ------------------------------------------------------------------ optionals
None == <<>>
Some(x) == <<x>>
IsNone(o) == o = <<>>
Val(o) == o[1]

Min(a, b) == IF a <= b THEN a ELSE b
Max(a, b) == IF a >= b THEN a ELSE b

\* ------------------------------------------------------------------ str
\* str.isspace() of one character, as str.strip() and str.split() use it
IsSpace(c) == c = " "

RECURSIVE LStrip(_)
LStrip(s) == IF s # <<>> /\ IsSpace(Head(s)) THEN LStrip(Tail(s)) ELSE s

RECURSIVE RStrip(_)
RStrip(s) ==
    IF s # <<>> /\ IsSpace(s[Len(s)]) THEN RStrip(SubSeq(s, 1, Len(s) - 1)) ELSE s

\* s.strip()
Strip(s) == RStrip(LStrip(s))

\* s.split(): the maximal runs of non-space characters, in order
RECURSIVE SplitFrom(_, _)
SplitFrom(s, cur) ==
    IF s = <<>> THEN (IF cur = <<>> THEN <<>> ELSE <<cur>>)
    ELSE IF IsSpace(Head(s))
         THEN (IF cur = <<>> THEN <<>> ELSE <<cur>>) \o SplitFrom(Tail(s), <<>>)
         ELSE SplitFrom(Tail(s), Append(cur, Head(s)))

Split(s) == SplitFrom(s, <<>>)

\* "".join(parts)
RECURSIVE Join(_)
Join(parts) == IF parts = <<>> THEN <<>> ELSE Head(parts) \o Join(Tail(parts))

\* (x or "") for an optional text x
OrEmpty(o) == IF IsNone(o) THEN <<>> ELSE Val(o)

\* ------------------------------------------------------------------ elements
\* A tuv element: [xmllang, lang : optional attribute value,
\*                 seg : optional seg element].
\* A seg element: [ns     : the tag is namespace-qualified ("{uri}seg"),
\*                 direct : it is a direct child of the tuv (not under a wrapper),
\*                 text   : optional seg.text,
\*                 tails  : the optional .tail of each child element, in order].

\* elem.get(key, default)
Get(attr, default) == IF IsNone(attr) THEN default ELSE Val(attr)

\* elem.find(".//{*}seg"): first descendant named seg in any (or no) namespace
FindAnySeg(elem) == elem.seg

\* elem.find("seg"): first direct child whose tag is exactly "seg"
FindSeg(elem) ==
    IF ~IsNone(elem.seg) /\ ~Val(elem.seg).ns /\ Val(elem.seg).direct
    THEN elem.seg ELSE None

\* truth value of an optional Element: None is false, and Element.__bool__ is
\* len(element) != 0, so an element without children is false as well
Truthy(o) == ~IsNone(o) /\ Len(Val(o).tails) > 0

\* a or b
Or(a, b) == IF Truthy(a) THEN a ELSE b

_get_seg_text(elem) ==
    LET seg == Or(FindAnySeg(elem), FindSeg(elem))
    IN  IF ~IsNone(seg)
        THEN Strip(OrEmpty(Val(seg).text)
                   \o Join([i \in 1..Len(Val(seg).tails) |-> OrEmpty(Val(seg).tails[i])]))
        ELSE <<>>

\* the lang read at a tuv end: the qualified attribute, else the bare one, else ""
LangOf(elem) == Get(elem.xmllang, Get(elem.lang, ""))

\* ------------------------------------------------------------------ events
\* What ET.iterparse(path, events=("start", "end")) yields for a document.  A
\* document is [ns : the tu/tuv tags are namespace-qualified,
\*              items : sequence of top-level items], an item being a tu record
\* [kind |-> "tu", tuvs |-> sequence of tuv elements] or a tuv outside any tu
\* [kind |-> "tuv", tuvs |-> <<the tuv element>>].
\* An event is [event, tag, elem]; elem carries the tuv element at a tuv end and
\* the record's tuv children at a tu end, empty otherwise.  A tag is
\* [ns, local], standing for "{uri}local" when ns and for "local" otherwise.
Ev(event, ns, local, elem) ==
    [event |-> event, tag |-> [ns |-> ns, local |-> local], elem |-> elem]

SegEvents(tuv) ==
    IF IsNone(tuv.seg) THEN <<>>
    ELSE <<Ev("start", Val(tuv.seg).ns, "seg", <<>>),
           Ev("end", Val(tuv.seg).ns, "seg", <<>>)>>

TuvEvents(ns, tuv) ==
    <<Ev("start", ns, "tuv", <<>>)>> \o SegEvents(tuv) \o <<Ev("end", ns, "tuv", <<tuv>>)>>

RECURSIVE TuvsEvents(_, _)
TuvsEvents(ns, tuvs) ==
    IF tuvs = <<>> THEN <<>>
    ELSE TuvEvents(ns, Head(tuvs)) \o TuvsEvents(ns, Tail(tuvs))

ItemEvents(ns, item) ==
    IF item.kind = "tu"
    THEN <<Ev("start", ns, "tu", <<>>)>> \o TuvsEvents(ns, item.tuvs)
         \o <<Ev("end", ns, "tu", item.tuvs)>>
    ELSE TuvsEvents(ns, item.tuvs)

RECURSIVE ItemsEvents(_, _)
ItemsEvents(ns, items) ==
    IF items = <<>> THEN <<>>
    ELSE ItemEvents(ns, Head(items)) \o ItemsEvents(ns, Tail(items))

Events(doc) ==
    <<Ev("start", doc.ns, "tmx", <<>>)>> \o ItemsEvents(doc.ns, doc.items)
    \o <<Ev("end", doc.ns, "tmx", <<>>)>>

\* elem.tag.split("}")[-1] if "}" in elem.tag else elem.tag
LocalTag(tag) == tag.local

\* ------------------------------------------------------------------ numbers
RECURSIVE SumSeq(_)
SumSeq(s) == IF s = <<>> THEN 0 ELSE Head(s) + SumSeq(Tail(s))

RECURSIVE MaxSeq(_)
MaxSeq(s) == IF Len(s) = 1 THEN s[1] ELSE Max(Head(s), MaxSeq(Tail(s)))

RECURSIVE MinSeq(_)
MinSeq(s) == IF Len(s) = 1 THEN s[1] ELSE Min(Head(s), MinSeq(Tail(s)))

\* A quotient x / y of the code is kept exact, as the fraction <<x, y>>, y > 0.
RatAdd(a, b) == <<a[1] * b[2] + b[1] * a[2], a[2] * b[2]>>

RECURSIVE RatSum(_)
RatSum(s) == IF s = <<>> THEN <<0, 1>> ELSE RatAdd(Head(s), RatSum(Tail(s)))

RatEq(a, b) == a[1] * b[2] = b[1] * a[2]
RatGreater(a, b) == a[1] * b[2] > b[1] * a[2]

\* total / n for a fraction total: empty when n = 0 (ZeroDivisionError)
TrueDiv(total, n) == IF n = 0 THEN None ELSE Some(<<total[1], total[2] * n>>)

\* s[:n]
Take(s, n) == SubSeq(s, 1, Min(n, Len(s)))

\* [f(x) for x in s if keep(x)]
Where(s, keep(_)) == SelectSeq(s, keep)

Map(s, f(_)) == [i \in 1..Len(s) |-> f(s[i])]

\* ------------------------------------------------------------------ analyses
\* Each call appends [fn, printed, raised, ret, val] to out: the lines it printed,
\* whether it raised, "dict" or "None" for what it returned, and the dict.
Call(fn, printed, raised, ret, val) ==
    [fn |-> fn, printed |-> printed, raised |-> raised, ret |-> ret, val |-> val]

TOP_K == 5            \* run_exploration: length_ratios(pairs, top_k=5)
NUM_SAMPLES == 5      \* __main__: num_samples=5
TOP_WORDS == 25       \* __main__: top_words=25
NUM_BUCKETS == 10     \* __main__: num_buckets=10
DEFAULT_SUBSET_SIZE == 50000
MIN_EN_LEN == 20      \* length_ratios: min_en_len
PREVIEW_LEN == 60     \* length_ratios: en[:60]
SAMPLE_LEN == 200     \* sample_pairs: en[:200]

EnOf(p) == p[1]
FrOf(p) == p[2]
CharLen(t) == Len(t)
WordLen(t) == Len(Split(t))

basic_stats(ps) ==
    IF ps = <<>>
    THEN Call("basic_stats", <<<<"No pairs loaded.">>>>, FALSE, "dict", [n_keys |-> 0])
    ELSE LET n == Len(ps)
             en_lens == Map(ps, LAMBDA p : CharLen(EnOf(p)))
             fr_lens == Map(ps, LAMBDA p : CharLen(FrOf(p)))
             en_words == Map(ps, LAMBDA p : WordLen(EnOf(p)))
             fr_words == Map(ps, LAMBDA p : WordLen(FrOf(p)))
             stats == [n_keys |-> 9,
                       n_pairs |-> n,
                       en_char_mean |-> <<SumSeq(en_lens), n>>,
                       fr_char_mean |-> <<SumSeq(fr_lens), n>>,
                       en_word_mean |-> <<SumSeq(en_words), n>>,
                       fr_word_mean |-> <<SumSeq(fr_words), n>>,
                       en_char_min |-> MinSeq(en_lens),
                       en_char_max |-> MaxSeq(en_lens),
                       fr_char_min |-> MinSeq(fr_lens),
                       fr_char_max |-> MaxSeq(fr_lens)]
         IN  Call("basic_stats",
                  <<<<"=== Basic statistics ===">>,
                    <<"Number of sentence pairs", n>>,
                    <<"English chars", stats.en_char_mean, stats.en_char_min, stats.en_char_max>>,
                    <<"French chars", stats.fr_char_mean, stats.fr_char_min, stats.fr_char_max>>,
                    <<"English words/sent", stats.en_word_mean>>,
                    <<"French words/sent", stats.fr_word_mean>>>>,
                  FALSE, "dict", stats)

\* A stable sort by falling key (list.sort(key=..., reverse=True), and sorted()
\* with a negated key) of a sequence of <<item, key>>, the key a fraction.
RECURSIVE InsertDesc(_, _)
InsertDesc(sorted, x) ==
    IF sorted = <<>> THEN <<x>>
    ELSE IF RatGreater(x[2], Head(sorted)[2]) THEN <<x>> \o sorted
         ELSE <<Head(sorted)>> \o InsertDesc(Tail(sorted), x)

RECURSIVE SortDesc(_)
SortDesc(s) ==
    IF s = <<>> THEN <<>>
    ELSE InsertDesc(SortDesc(SubSeq(s, 1, Len(s) - 1)), s[Len(s)])

\* the count each mean of length_ratios is divided by: n = len(ratios_char)
CharDivisor(ratios_char, ratios_word) == Len(ratios_char)
WordDivisor(ratios_char, ratios_word) == Len(ratios_char)

length_ratios(ps, top_k) ==
    IF ps = <<>>
    THEN Call("length_ratios", <<>>, FALSE, "None", [n_keys |-> 0])
    ELSE LET ratios_char == Map(Where(ps, LAMBDA p : CharLen(EnOf(p)) > 0),
                                LAMBDA p : <<CharLen(FrOf(p)), CharLen(EnOf(p))>>)
             ratios_word == Map(Where(ps, LAMBDA p : WordLen(EnOf(p)) > 0),
                                LAMBDA p : <<WordLen(FrOf(p)), WordLen(EnOf(p))>>)
             mean_rc == TrueDiv(RatSum(ratios_char), CharDivisor(ratios_char, ratios_word))
             mean_rw == TrueDiv(RatSum(ratios_word), WordDivisor(ratios_char, ratios_word))
             with_ratio == SortDesc(
                 Map(Where(ps, LAMBDA p : CharLen(EnOf(p)) >= MIN_EN_LEN),
                     LAMBDA p : <<p, <<CharLen(FrOf(p)), CharLen(EnOf(p))>>>>))
         IN  IF IsNone(mean_rc) \/ IsNone(mean_rw)
             THEN Call("length_ratios", <<>>, TRUE, "None", [n_keys |-> 0])
             ELSE Call("length_ratios",
                       <<<<"=== Length ratios (FR/EN) ===">>,
                         <<"By character", Val(mean_rc)>>,
                         <<"By word", Val(mean_rw)>>,
                         <<"Top pairs", top_k, MIN_EN_LEN>>>>
                       \o Map(Take(with_ratio, top_k),
                              LAMBDA x : <<"ratio", x[2], CharLen(EnOf(x[1])),
                                           CharLen(FrOf(x[1])), Take(EnOf(x[1]), PREVIEW_LEN)>>),
                       FALSE, "dict",
                       [n_keys |-> 2, mean_ratio_char |-> Val(mean_rc),
                        mean_ratio_word |-> Val(mean_rw)])

\* max(1, (max_w + num_buckets - 1) // num_buckets)
BucketSize(max_w, nb) == Max(1, (max_w + nb - 1) \div nb)

\* faulty variant of BucketOf: the index is not clamped to the last bucket
BucketOfUnclamped(w, size, nb) == w \div size

\* min(w // bucket_size, num_buckets - 1)
BucketOf(w, size, nb) == Min(w \div size, nb - 1)

\* (b + 1) * bucket_size - 1 if b < num_buckets - 1 else max_w
BucketHi(b, size, nb, max_w) == IF b < nb - 1 THEN (b + 1) * size - 1 ELSE max_w

\* the lines printed for one side: <<side, lo, hi, count>> for each bucket that
\* received a count, in increasing bucket order
RECURSIVE BucketLines(_, _, _, _, _)
BucketLines(side, words, nb, b, top) ==
    LET max_w == MaxSeq(words)
        size == BucketSize(max_w, nb)
        count == Cardinality({i \in 1..Len(words) : BucketOf(words[i], size, nb) = b})
    IN  IF b > top THEN <<>>
        ELSE (IF count > 0
              THEN <<<<side, b * size, BucketHi(b, size, nb, max_w), count>>>>
              ELSE <<>>)
             \o BucketLines(side, words, nb, b + 1, top)

\* the largest key of the defaultdict
TopBucket(words, nb) ==
    LET size == BucketSize(MaxSeq(words), nb)
    IN  MaxSeq(Map(words, LAMBDA w : BucketOf(w, size, nb)))

sentence_length_distribution(ps, nb) ==
    IF ps = <<>>
    THEN Call("sentence_length_distribution", <<>>, FALSE, "None", [n_keys |-> 0])
    ELSE LET en_words == Map(ps, LAMBDA p : WordLen(EnOf(p)))
             fr_words == Map(ps, LAMBDA p : WordLen(FrOf(p)))
         IN  Call("sentence_length_distribution",
                  <<<<"=== Sentence length (words) distribution ===">>, <<"English">>>>
                  \o BucketLines("en", en_words, nb, 0,
                                 TopBucket(en_words, nb))
                  \o <<<<"French">>>>
                  \o BucketLines("fr", fr_words, nb, 0,
                                 TopBucket(fr_words, nb)),
                  FALSE, "None", [n_keys |-> 0])

\* max(1, n // (k + 1)) and [i * step for i in range(k)]
SampleIndices(n, k) ==
    LET step == Max(1, n \div (k + 1)) IN [i \in 1..k |-> (i - 1) * step]

\* the loop over indices stops at the first idx >= n
RECURSIVE SampleLines(_, _, _)
SampleLines(ps, indices, i) ==
    IF i > Len(indices) \/ indices[i] >= Len(ps) THEN <<>>
    ELSE LET p == ps[indices[i] + 1]
         IN  <<<<"Pair", i, indices[i],
                 Take(EnOf(p), SAMPLE_LEN), CharLen(EnOf(p)) > SAMPLE_LEN,
                 Take(FrOf(p), SAMPLE_LEN), CharLen(FrOf(p)) > SAMPLE_LEN>>>>
             \o SampleLines(ps, indices, i + 1)

sample_pairs(ps, k) ==
    IF ps = <<>>
    THEN Call("sample_pairs", <<>>, FALSE, "None", [n_keys |-> 0])
    ELSE Call("sample_pairs",
              <<<<"=== Sample pairs ===">>>> \o SampleLines(ps, SampleIndices(Len(ps), k), 1),
              FALSE, "None", [n_keys |-> 0])

\* str.lower() of one character
Lower(c) == IF c = "A" THEN "a" ELSE IF c = "B" THEN "b" ELSE c

\* \w
IsWordChar(c) == c \in {"a", "b", "A", "B", "_", "0"}

\* word_re.finditer(s): the maximal runs of word characters, in order
RECURSIVE TokensFrom(_, _)
TokensFrom(s, cur) ==
    IF s = <<>> THEN (IF cur = <<>> THEN <<>> ELSE <<cur>>)
    ELSE IF ~IsWordChar(Head(s))
         THEN (IF cur = <<>> THEN <<>> ELSE <<cur>>) \o TokensFrom(Tail(s), <<>>)
         ELSE TokensFrom(Tail(s), Append(cur, Head(s)))

Tokens(s) == TokensFrom(Map(s, Lower), <<>>)

\* freq[w] += 1 on a defaultdict(int) kept in insertion order as <<word, count>>
CountWord(freq, w) ==
    IF \E i \in 1..Len(freq) : freq[i][1] = w
    THEN [i \in 1..Len(freq) |-> IF freq[i][1] = w THEN <<w, freq[i][2] + 1>> ELSE freq[i]]
    ELSE Append(freq, <<w, 1>>)

RECURSIVE CountWords(_, _)
CountWords(freq, ws) ==
    IF ws = <<>> THEN freq ELSE CountWords(CountWord(freq, Head(ws)), Tail(ws))

\* the frequency table of one side over all pairs
RECURSIVE FreqOf(_, _)
FreqOf(freq, texts) ==
    IF texts = <<>> THEN freq
    ELSE FreqOf(CountWords(freq, Tokens(Head(texts))), Tail(texts))

\* sorted(freq.items(), key=lambda x: -x[1])[:top_n]: stable, by falling count
TopOf(freq, top_n) ==
    Take(Map(SortDesc(Map(freq, LAMBDA x : <<x, <<x[2], 1>>>>)), LAMBDA y : y[1]), top_n)

vocabulary_trends(ps, top_n) ==
    IF ps = <<>>
    THEN Call("vocabulary_trends", <<>>, FALSE, "None", [n_keys |-> 0])
    ELSE LET en_top == TopOf(FreqOf(<<>>, Map(ps, EnOf)), top_n)
             fr_top == TopOf(FreqOf(<<>>, Map(ps, FrOf)), top_n)
         IN  Call("vocabulary_trends",
                  <<<<"=== Top words (subset) ===">>,
                    <<"English", Map(en_top, LAMBDA x : x[1])>>,
                    <<"French", Map(fr_top, LAMBDA x : x[1])>>>>,
                  FALSE, "dict", [n_keys |-> 2, en_top |-> en_top, fr_top |-> fr_top])

\* ------------------------------------------------------------------ inputs
SeqsUpTo(S, n) == UNION {[1..k -> S] : k \in 0..n}

PlainSeg(text) == Some([ns |-> FALSE, direct |-> TRUE, text |-> Some(text), tails |-> <<>>])

Tuv(q, l, seg) == [xmllang |-> q, lang |-> l, seg |-> seg]

Tu(tuvs) == [kind |-> "tu", tuvs |-> tuvs]

\* loader specification: variants tagged xml:lang with a plain seg; the i-th
\* variant of the document has the text of i letters, so every text is distinct
LoadLangs == {"en", "fr", "de"}

LoadTuvs(langs) ==
    [i \in 1..Len(langs) |-> Tuv(Some(langs[i]), None, PlainSeg([j \in 1..i |-> "a"]))]

\* the documents of at most MaxTu top-level items and MaxTuv variants in all:
\* a sequence of variants cut into items of the given kinds and sizes
ItemShapes ==
    {[kind |-> "tu", n |-> k] : k \in 0..MaxTuv} \cup {[kind |-> "tuv", n |-> 1]}

RECURSIVE CutItems(_, _)
CutItems(tuvs, shapes) ==
    IF shapes = <<>> THEN <<>>
    ELSE <<[kind |-> Head(shapes).kind, tuvs |-> SubSeq(tuvs, 1, Head(shapes).n)]>>
         \o CutItems(SubSeq(tuvs, Head(shapes).n + 1, Len(tuvs)), Tail(shapes))

LoadDocs ==
    {[ns |-> FALSE, items |-> CutItems(LoadTuvs(d[1]), d[2])] :
        d \in {e \in SeqsUpTo(LoadLangs, MaxTuv) \X SeqsUpTo(ItemShapes, MaxTu) :
                 SumSeq(Map(e[2], LAMBDA sh : sh.n)) = Len(e[1])}}

\* extraction specification: one record of an en-side variant of every shape
\* (attribute placement, seg namespace, nesting, text, inline children) and a
\* fr-side variant
SegTexts == SeqsUpTo({"a", " "}, MaxTextLen)

OptTexts(texts) == {None} \cup {Some(t) : t \in texts}

SegShapes ==
    {None} \cup
    {Some([ns |-> n, direct |-> d, text |-> t, tails |-> ts]) :
        n \in BOOLEAN, d \in BOOLEAN, t \in OptTexts(SegTexts),
        ts \in SeqsUpTo(OptTexts({<<"a">>, <<" ">>}), MaxInline)}

EnAttrs ==
    {<<Some("en"), None>>, <<None, Some("en")>>, <<Some("de"), Some("en")>>,
     <<None, Some("EN")>>}

FrTuvs == {Tuv(None, Some("fr"), PlainSeg(<<"b">>)), Tuv(Some("fr"), None, None)}

SegDocs ==
    {[ns |-> n, items |-> <<Tu(<<Tuv(a[1], a[2], sg), f>>)>>] :
        n \in BOOLEAN, a \in EnAttrs, sg \in SegShapes, f \in FrTuvs}

\* statistics specification: texts of k words, "a B, a B, ..."
RECURSIVE WordsText(_)
WordsText(k) ==
    IF k = 0 THEN <<>>
    ELSE (IF k = 1 THEN <<>> ELSE WordsText(k - 1) \o <<" ">>)
         \o (IF k % 2 = 1 THEN <<"a">> ELSE <<"B", ",">>)

StatTexts == {WordsText(k) : k \in 0..MaxWords}

StatPairs == SeqsUpTo(StatTexts \X StatTexts, MaxPairs)

\* ------------------------------------------------------------------ state
VARIABLES
    events,      \* the parse events of the input document
    max_tu,      \* the cap
    num_buckets, \* sentence_length_distribution's num_buckets
    pos,         \* number of events iterparse has yielded so far
    pc,          \* "parse" in load_tmx_subset_robust's loop, "loaded" once it has
                 \* returned, then the analysis run_exploration calls next
    pairs, in_tu, en_text, fr_text,
    out          \* the analyses' calls so far

vars == <<events, max_tu, num_buckets, pos, pc, pairs, in_tu, en_text, fr_text, out>>

\* locals of load_tmx_subset_robust before the loop
LoaderStart ==
    /\ pos = 0
    /\ pc = "parse"
    /\ pairs = <<>>
    /\ in_tu = FALSE
    /\ en_text = None
    /\ fr_text = None
    /\ out = <<>>

\* load_tmx_subset_robust on a document
Init ==
    /\ \E doc \in LoadDocs : events = Events(doc)
    /\ max_tu \in 0..MaxCap
    /\ num_buckets = NUM_BUCKETS
    /\ LoaderStart

\* run_exploration on a document, with the default cap
InitSeg ==
    /\ \E doc \in SegDocs : events = Events(doc)
    /\ max_tu = DEFAULT_SUBSET_SIZE
    /\ num_buckets = NUM_BUCKETS
    /\ LoaderStart

\* the analyses called on a pair list
InitStats ==
    /\ events = <<>>
    /\ max_tu = DEFAULT_SUBSET_SIZE
    /\ num_buckets \in 1..MaxBuckets
    /\ pos = 0
    /\ pc = "loaded"
    /\ pairs \in StatPairs
    /\ in_tu = FALSE
    /\ en_text = None
    /\ fr_text = None
    /\ out = <<>>

\* the event the loop body is about to handle
Cur == events[pos + 1]

HasNext == pc = "parse" /\ pos < Len(events)

\* faulty variant of BothSet: "if en_text and fr_text", which drops empty texts
BothSetNonEmpty(en, fr) == en # None /\ fr # None /\ en # Some(<<>>) /\ fr # Some(<<>>)

\* en_text is not None and fr_text is not None
BothSet(en, fr) == ~IsNone(en) /\ ~IsNone(fr)

\* faulty variant of CapReached: "len(pairs) > max_tu"
CapReachedPast(n, cap) == n > cap

\* len(pairs) >= max_tu
CapReached(n, cap) == n >= cap

\* faulty variant of TuStart: the slots of the previous record are not reset
TuStartNoReset ==
    /\ HasNext
    /\ LocalTag(Cur.tag) = "tu" /\ Cur.event = "start"
    /\ in_tu' = TRUE
    /\ pos' = pos + 1
    /\ UNCHANGED <<events, max_tu, num_buckets, pc, pairs, en_text, fr_text, out>>

\* tag == "tu", event == "start"
TuStart ==
    /\ HasNext
    /\ LocalTag(Cur.tag) = "tu" /\ Cur.event = "start"
    /\ in_tu' = TRUE
    /\ en_text' = None
    /\ fr_text' = None
    /\ pos' = pos + 1
    /\ UNCHANGED <<events, max_tu, num_buckets, pc, pairs, out>>

\* faulty variant of TuEnd: no break at the cap
TuEndNoBreak ==
    /\ HasNext
    /\ LocalTag(Cur.tag) = "tu" /\ Cur.event = "end"
    /\ pos' = pos + 1
    /\ pairs' = IF BothSet(en_text, fr_text)
                THEN Append(pairs, <<Val(en_text), Val(fr_text)>>) ELSE pairs
    /\ in_tu' = FALSE
    /\ UNCHANGED <<events, max_tu, num_buckets, pc, en_text, fr_text, out>>

\* tag == "tu", event == "end": append, break at the cap (return pairs), else
\* leave the record
TuEnd ==
    /\ HasNext
    /\ LocalTag(Cur.tag) = "tu" /\ Cur.event = "end"
    /\ pos' = pos + 1
    /\ IF BothSet(en_text, fr_text)
       THEN /\ pairs' = Append(pairs, <<Val(en_text), Val(fr_text)>>)
            /\ IF CapReached(Len(pairs'), max_tu)
               THEN pc' = "loaded" /\ in_tu' = in_tu
               ELSE pc' = pc /\ in_tu' = FALSE
       ELSE pairs' = pairs /\ pc' = pc /\ in_tu' = FALSE
    /\ UNCHANGED <<events, max_tu, num_buckets, en_text, fr_text, out>>

\* in_tu and tag == "tuv", event == "end"
TuvEnd ==
    /\ HasNext
    /\ LocalTag(Cur.tag) # "tu"
    /\ in_tu /\ LocalTag(Cur.tag) = "tuv" /\ Cur.event = "end"
    /\ LET elem == Cur.elem[1]
           lang == LangOf(elem)
           text == _get_seg_text(elem)
       IN  /\ en_text' = IF lang = "en" THEN Some(text) ELSE en_text
           /\ fr_text' = IF lang # "en" /\ lang = "fr" THEN Some(text) ELSE fr_text
    /\ pos' = pos + 1
    /\ UNCHANGED <<events, max_tu, num_buckets, pc, pairs, in_tu, out>>

\* every other event: no branch of the loop body applies
OtherEvent ==
    /\ HasNext
    /\ LocalTag(Cur.tag) # "tu"
    /\ ~(in_tu /\ LocalTag(Cur.tag) = "tuv" /\ Cur.event = "end")
    /\ pos' = pos + 1
    /\ UNCHANGED <<events, max_tu, num_buckets, pc, pairs, in_tu, en_text, fr_text, out>>

\* the iterator is exhausted: return pairs
EndOfInput ==
    /\ pc = "parse" /\ pos = Len(events)
    /\ pc' = "loaded"
    /\ UNCHANGED <<events, max_tu, num_buckets, pos, pairs, in_tu, en_text, fr_text, out>>

\* the analyses, in run_exploration's order; an exception ends the run
Analysis(name, call, then) ==
    /\ pc = name
    /\ out' = Append(out, call)
    /\ pc' = IF call.raised THEN "raised" ELSE then
    /\ UNCHANGED <<events, max_tu, num_buckets, pos, pairs, in_tu, en_text, fr_text>>

BasicStats == Analysis("loaded", basic_stats(pairs), "length_ratios")

LengthRatios ==
    Analysis("length_ratios", length_ratios(pairs, TOP_K), "sentence_length_distribution")

SentenceLengthDistribution ==
    Analysis("sentence_length_distribution",
             sentence_length_distribution(pairs, num_buckets), "vocabulary_trends")

VocabularyTrends ==
    Analysis("vocabulary_trends", vocabulary_trends(pairs, TOP_WORDS), "sample_pairs")

SamplePairs == Analysis("sample_pairs", sample_pairs(pairs, NUM_SAMPLES), "done")

NextStats ==
    BasicStats \/ LengthRatios \/ SentenceLengthDistribution \/ VocabularyTrends
    \/ SamplePairs

Next == TuStart \/ TuEnd \/ TuvEnd \/ OtherEvent \/ EndOfInput

NextRun == Next \/ NextStats

Spec == Init /\ [][Next]_vars

SpecSeg == InitSeg /\ [][NextRun]_vars

SpecStats == InitStats /\ [][NextStats]_vars

\* ------------------------------------------------------------------ properties
Loaded == pc # "parse"

IsTuEnd(e) == LocalTag(e.tag) = "tu" /\ e.event = "end"
IsTuStart(e) == LocalTag(e.tag) = "tu" /\ e.event = "start"

\* the tuv children of the records closed among the first k events, in order
ClosedTus(k) == Map(SelectSeq(SubSeq(events, 1, k), IsTuEnd), LAMBDA e : e.elem)

\* the texts of a record's variants read as language l, in document order
TextsOf(tuvs, l) ==
    Map(SelectSeq(tuvs, LAMBDA t : LangOf(t) = l), LAMBDA t : _get_seg_text(t))

Range(f) == {f[i] : i \in DOMAIN f}

\* a qualifying record: it has an en variant and a fr variant
Qualifying(tuvs) == TextsOf(tuvs, "en") # <<>> /\ TextsOf(tuvs, "fr") # <<>>

QualifyingTus(k) == SelectSeq(ClosedTus(k), Qualifying)

NumQualifying == Len(QualifyingTus(Len(events)))

\* C1: for a positive cap the collection never holds more than cap pairs, and the
\* returned collection holds cap pairs when the input has at least cap qualifying
\* records, else as many pairs as the input has qualifying records.
C1_LengthWithinCap ==
    max_tu >= 1 =>
        /\ Len(pairs) <= max_tu
        /\ Loaded => Len(pairs) = IF NumQualifying >= max_tu THEN max_tu ELSE NumQualifying

C1_Witness == Loaded /\ max_tu = 1 /\ NumQualifying = 2 /\ Len(pairs) = 1

\* C2: the collection holds exactly one pair per record closed so far that had
\* both an en and a fr variant, none for the other records, in document order,
\* each pair built from texts of its own record's variants.
C2_PairPerQualifyingRecord ==
    LET q == QualifyingTus(pos)
    IN  /\ Len(pairs) = Len(q)
        /\ \A i \in 1..Len(pairs) :
              /\ pairs[i][1] \in Range(TextsOf(q[i], "en"))
              /\ pairs[i][2] \in Range(TextsOf(q[i], "fr"))

C2_Witness ==
    /\ Loaded /\ Len(ClosedTus(pos)) = 2 /\ Len(pairs) = 1
    /\ ~Qualifying(ClosedTus(pos)[1]) /\ ClosedTus(pos)[1] # <<>>
    /\ pairs[1] = <<<<"a", "a", "a">>, <<"a", "a">>>>

\* C3: the pair of a record carries, for each language, the text of the first
\* variant of that language in the record.
C3_FirstVariantKept ==
    LET q == QualifyingTus(pos)
    IN  max_tu >= 1 => \A i \in 1..Len(pairs) :
            /\ i <= Len(q)
            /\ pairs[i][1] = TextsOf(q[i], "en")[1]
            /\ pairs[i][2] = TextsOf(q[i], "fr")[1]

\* C5: while the loop runs the cap has not been reached; after an early stop the
\* last event consumed is the tu end whose append reached the cap, nothing after
\* it is consumed and the collection stays what it was then; otherwise the whole
\* input was consumed and the collection is what was accumulated.
C5_EarlyStop ==
    /\ pc = "parse" => pairs = <<>> \/ Len(pairs) < max_tu
    /\ Loaded /\ events # <<>> =>
          /\ Len(pairs) = Len(QualifyingTus(pos))
          /\ \/ /\ pos = Len(events)
                /\ pairs = <<>> \/ Len(pairs) < max_tu
             \/ /\ pos \in 1..Len(events)
                /\ IsTuEnd(events[pos])
                /\ Qualifying(events[pos].elem)
                /\ Len(pairs) >= max_tu
                /\ Len(pairs) - 1 < max_tu \/ Len(pairs) = 1

C5_Witness ==
    /\ Loaded /\ max_tu = 1 /\ Len(pairs) = 1
    /\ \E k \in (pos + 1)..Len(events) : IsTuStart(events[k])

\* C7: with a cap of zero the returned collection is empty.
C7_ZeroCapLoadsNothing == Loaded /\ max_tu = 0 => pairs = <<>>

\* the seg content the claim expects of a variant: the stripped text and tails
\* of its seg wherever and however the seg is tagged, empty without a seg
SegContent(tuv) ==
    IF IsNone(tuv.seg) THEN <<>>
    ELSE Strip(OrEmpty(Val(tuv.seg).text)
               \o Join(Map(Val(tuv.seg).tails, OrEmpty)))

\* the language attribute of a variant, qualified or bare
TaggedAs(tuv, l) == tuv.xmllang = Some(l) \/ (tuv.xmllang = None /\ tuv.lang = Some(l))

\* the seg, if any, is a child of the variant itself
SegIsChild(tuv) == IsNone(tuv.seg) \/ Val(tuv.seg).direct

\* the variants of the closed records that are tagged l
Tagged(l) ==
    LET all == ClosedTus(pos)
    IN  UNION {{all[i][j] : j \in {j \in 1..Len(all[i]) : TaggedAs(all[i][j], l)}} :
               i \in 1..Len(all)}

\* C4: a variant tagged en through either attribute is read as en, and the text
\* kept for it is the stripped text and tails of its seg child, whether or not
\* the seg is namespace-qualified and whether or not it has inline children.
C4_NamespaceTolerant ==
    /\ Loaded /\ Tagged("en") # {} /\ Tagged("fr") # {}
    /\ \A t \in Tagged("en") \cup Tagged("fr") : SegIsChild(t)
    =>
        /\ Len(pairs) = 1
        /\ pairs[1][1] \in {SegContent(t) : t \in Tagged("en")}
        /\ pairs[1][2] \in {SegContent(t) : t \in Tagged("fr")}

\* C8: every pair of the returned collection has a non-empty source text and a
\* non-empty target text.
C8_PairsNonEmpty ==
    Loaded => \A i \in 1..Len(pairs) : pairs[i][1] # <<>> /\ pairs[i][2] # <<>>

IsBlank(tuv) == SegContent(tuv) = <<>>

\* C8, amended: every closed record with an en and a fr variant gives a pair,
\* also when a variant has no seg or a seg of whitespace only: that side of the
\* pair is then the empty string.
C8_PairsMayBeEmpty ==
    Loaded /\ Tagged("en") # {} /\ Tagged("fr") # {} =>
        /\ Len(pairs) = 1
        /\ (\A t \in Tagged("en") : IsBlank(t)) => pairs[1][1] = <<>>
        /\ (\A t \in Tagged("fr") : IsBlank(t)) => pairs[1][2] = <<>>

C8_Witness ==
    /\ Loaded /\ Len(pairs) = 1
    /\ \E t \in Tagged("en") : ~IsNone(t.seg) /\ Val(t.seg).text = Some(<<" ">>)
    /\ \E t \in Tagged("fr") : IsNone(t.seg)
    /\ pairs[1] = <<<<>>, <<>>>>

CallsOf(fn) == SelectSeq(out, LAMBDA c : c.fn = fn)

\* C6: on an empty collection every analysis prints a notice, returns an empty
\* summary and does not raise.
C6_EmptyCollectionNotice ==
    pairs = <<>> =>
        \A i \in 1..Len(out) :
            /\ ~out[i].raised
            /\ out[i].printed # <<>>
            /\ out[i].ret = "dict" /\ out[i].val.n_keys = 0

RatiosChar ==
    Map(SelectSeq(pairs, LAMBDA p : Len(p[1]) > 0), LAMBDA p : <<Len(p[2]), Len(p[1])>>)

RatiosWord ==
    Map(SelectSeq(pairs, LAMBDA p : Len(Split(p[1])) > 0),
        LAMBDA p : <<Len(Split(p[2])), Len(Split(p[1]))>>)

\* C10: on a non-empty collection the loader returned, length_ratios does not
\* raise and each mean is the sum of its series over that series' own count.
C10_LengthRatiosCompletes ==
    events # <<>> /\ pairs # <<>> =>
        \A i \in 1..Len(out) :
            out[i].fn = "length_ratios" =>
                /\ ~out[i].raised
                /\ out[i].ret = "dict"
                /\ Len(RatiosChar) > 0 /\ Len(RatiosWord) > 0
                /\ RatEq(out[i].val.mean_ratio_char,
                         <<RatSum(RatiosChar)[1], RatSum(RatiosChar)[2] * Len(RatiosChar)>>)
                /\ RatEq(out[i].val.mean_ratio_word,
                         <<RatSum(RatiosWord)[1], RatSum(RatiosWord)[2] * Len(RatiosWord)>>)

\* ceil(max_w / nb) with a floor of 1: the least c >= 1 with c * nb >= max_w
CeilWidth(max_w, nb) == CHOOSE c \in 1..(max_w + 1) :
    /\ c * nb >= max_w
    /\ \A d \in 1..(max_w + 1) : d * nb >= max_w => c <= d

\* the claim for one side: words are the side's word counts, lines its printed
\* bucket lines <<side, lo, hi, count>>
BucketsRight(words, lines, nb) ==
    LET max_w == CHOOSE m \in Range(words) : \A w \in Range(words) : w <= m
        width == CeilWidth(max_w, nb)
        index(w) == IF w \div width <= nb - 1 THEN w \div width ELSE nb - 1
    IN  /\ \A i \in 1..Len(words) :
              /\ index(words[i]) \in 0..(nb - 1)
              /\ \E k \in 1..Len(lines) :
                    /\ lines[k][2] = index(words[i]) * width
                    /\ lines[k][2] <= words[i] /\ words[i] <= lines[k][3]
        /\ \A k \in 1..Len(lines) :
              \E b \in 0..(nb - 1) :
                  /\ lines[k][2] = b * width
                  /\ lines[k][3] = IF b < nb - 1 THEN (b + 1) * width - 1 ELSE max_w
                  /\ lines[k][4] = Cardinality({i \in 1..Len(words) : index(words[i]) = b})
        /\ \A k, l \in 1..Len(lines) : k < l => lines[k][2] < lines[l][2]
        /\ SumSeq(Map(lines, LAMBDA ln : ln[4])) = Len(words)
        /\ \E k \in 1..Len(lines) : lines[k][2] <= max_w /\ max_w <= lines[k][3]

\* C9: for each side the bucket width is max(1, ceil(max / num_buckets)), every
\* bucket index lies in 0..num_buckets-1, the counts sum to the number of pairs,
\* and every word count lies in the printed range of its bucket, the final
\* bucket's range ending at the maximum.
C9_BucketsCoverCounts ==
    pairs # <<>> =>
        \A i \in 1..Len(out) :
            out[i].fn = "sentence_length_distribution" =>
                /\ BucketsRight(Map(pairs, LAMBDA p : Len(Split(p[1]))),
                                SelectSeq(out[i].printed, LAMBDA ln : ln[1] = "en"),
                                num_buckets)
                /\ BucketsRight(Map(pairs, LAMBDA p : Len(Split(p[2]))),
                                SelectSeq(out[i].printed, LAMBDA ln : ln[1] = "fr"),
                                num_buckets)

\* the clamp is needed: a word count whose quotient by the width is num_buckets
C9_Witness ==
    /\ Len(pairs) = 2 /\ num_buckets = 2
    /\ Len(Split(pairs[1][1])) = 2 /\ Len(Split(pairs[2][1])) = 0
    /\ CallsOf("sentence_length_distribution") # <<>>
    /\ \E ln \in Range(CallsOf("sentence_length_distribution")[1].printed) :
          ln = <<"en", 1, 2, 1>>
====
